---- MODULE Spec2Model ----
(***************************************************************************)
(* A model of frugalmoniker.py: the NamecheapClient request builder, its   *)
(* command methods, and the Domain and Contact records.                    *)
(*                                                                         *)
(* Python values: a str is a sequence of one-character strings, None is    *)
(* the value None below (no str equals it), an int is an integer.  Keys of *)
(* dicts are TLA+ strings; a dict is a function on its set of keys.        *)
(***************************************************************************)
EXTENDS Integers, Sequences, FiniteSets, TLC

VARIABLES
    base_opts,   \* self.base_opts of the client
    base_url,    \* self.base_url of the client
    ip_lookups,  \* number of requests.get('http://icanhazip.com') issued
    ctor,        \* the arguments the client was constructed with
    call,        \* the last operation called and its arguments
    result,      \* how the last operation ended: a return value or an exception
    sent,        \* the HTTP POSTs the last operation issued, in order
    heap         \* the Contact objects passed to the last operation, as it left them

vars == <<base_opts, base_url, ip_lookups, ctor, call, result, sent, heap>>

---------------------------------------------------------------------------
(* Python values *)

None == <<"None">>

\* Python truth of a str or None: None and '' are false.
Truthy(v) == v # None /\ v # <<>>

\* dict.get(k): the value, or None when the key is missing.
Get(d, k) == IF k \in DOMAIN d THEN d[k] ELSE None

\* d.update(kw) on a copy of d: kw's entries win.
Update(d, kw) ==
    LET new == DOMAIN kw
    IN  [k \in (DOMAIN d) \cup new |-> IF k \in new THEN kw[k] ELSE d[k]]

EmptyDict == [k \in {} |-> None]

\* The str as one TLA+ string (used for dict keys).
RECURSIVE Str(_)
Str(s) == IF s = <<>> THEN "" ELSE s[1] \o Str(Tail(s))

Digits == {"0", "1", "2", "3", "4", "5", "6", "7", "8", "9"}

---------------------------------------------------------------------------
(* How an operation ends: returned a value or raised, the POSTs it issued, *)
(* and the client's base_opts after it.                                    *)

Return(v, posts, base) ==
    [kind |-> "return", exc |-> "", value |-> v, posts |-> posts, base_opts |-> base]

Raise(exc, v, posts, base) ==
    [kind |-> "raise", exc |-> exc, value |-> v, posts |-> posts, base_opts |-> base]

---------------------------------------------------------------------------
(* NamecheapClient *)

DefaultEnvironment == <<"h">>

\* NamecheapClient.__init__; looked_up is what icanhazip.com answers.
NamecheapClient(api_user, api_key, username, client_ip, looked_up) ==
    LET lookup == ~Truthy(client_ip)
        ip     == IF lookup THEN looked_up ELSE client_ip
        user   == IF ~Truthy(username) THEN api_user ELSE username
    IN  [base_opts  |-> [ApiUser |-> api_user, ApiKey |-> api_key,
                         UserName |-> user, ClientIp |-> ip],
         base_url   |-> DefaultEnvironment,
         ip_lookups |-> IF lookup THEN 1 ELSE 0]

\* A mutated request: it updates self.base_opts in place and posts that.
request_nocopy(base, url, kwargs, response) ==
    LET opts == Update(base, kwargs)
    IN  Return(response, <<[url |-> url, data |-> opts]>>, opts)

\* A mutated request: the base parameters win over the keyword arguments.
request_basewins(base, url, kwargs, response) ==
    LET opts == Update(kwargs, base)
    IN  Return(response, <<[url |-> url, data |-> opts]>>, base)

\* NamecheapClient.request(**kwargs); response is what the server answers.
request(base, url, kwargs, response) ==
    LET opts == Update(base, kwargs)
    IN  Return(response, <<[url |-> url, data |-> opts]>>, base)

---------------------------------------------------------------------------
(* Contact *)

Ok(v) == [kind |-> "return", exc |-> "", value |-> v]
Err(exc, v) == [kind |-> "raise", exc |-> exc, value |-> v]

\* The attribute names of a Contact, as Python strs.
organization_name == <<"o", "r", "g", "a", "n", "i", "z", "a", "t", "i", "o", "n", "_", "n", "a", "m", "e">>
job_title == <<"j", "o", "b", "_", "t", "i", "t", "l", "e">>
first_name == <<"f", "i", "r", "s", "t", "_", "n", "a", "m", "e">>
last_name == <<"l", "a", "s", "t", "_", "n", "a", "m", "e">>
address1 == <<"a", "d", "d", "r", "e", "s", "s", "1">>
address2 == <<"a", "d", "d", "r", "e", "s", "s", "2">>
city == <<"c", "i", "t", "y">>
state_province == <<"s", "t", "a", "t", "e", "_", "p", "r", "o", "v", "i", "n", "c", "e">>
state_province_choice == <<"s", "t", "a", "t", "e", "_", "p", "r", "o", "v", "i", "n", "c", "e", "_", "c", "h", "o", "i", "c", "e">>
postal_code == <<"p", "o", "s", "t", "a", "l", "_", "c", "o", "d", "e">>
country == <<"c", "o", "u", "n", "t", "r", "y">>
phone == <<"p", "h", "o", "n", "e">>
phone_ext == <<"p", "h", "o", "n", "e", "_", "e", "x", "t">>
fax == <<"f", "a", "x">>
email_address == <<"e", "m", "a", "i", "l", "_", "a", "d", "d", "r", "e", "s", "s">>
_prefix == <<"_", "p", "r", "e", "f", "i", "x">>

\* A mutated __required_fields: email_address is left out.
required_fields_short ==
    <<first_name, last_name, address1, city, state_province, country,
      postal_code, phone>>

\* Contact.__required_fields, in its order.
required_fields ==
    <<first_name, last_name, address1, city, state_province, country,
      postal_code, phone, email_address>>

\* Contact._validate_phone_number: re.match of '\+\d{3}\.\d{7}', which matches
\* at the start of the str and says nothing about what follows the match.
_validate_phone_number(number) ==
    /\ Len(number) >= 12
    /\ number[1] = "+"
    /\ \A i \in 2..4 : number[i] \in Digits
    /\ number[5] = "."
    /\ \A i \in 6..12 : number[i] \in Digits

\* The first required field, in order, whose value is false.
FirstFalse(self, fields) ==
    LET bad == {i \in 1..Len(fields) : ~Truthy(self[fields[i]])}
    IN  IF bad = {} THEN 0 ELSE CHOOSE i \in bad : \A j \in bad : i <= j

\* Contact.validate
validate(self) ==
    LET i == FirstFalse(self, required_fields)
    IN  IF i # 0 THEN Err("ContactValidationError", <<required_fields[i], "is required">>)
        ELSE IF ~_validate_phone_number(self[phone])
             THEN Err("ContactValidationError", <<phone, "is not in valid format">>)
        ELSE IF Truthy(self[fax]) /\ ~_validate_phone_number(self[fax])
             THEN Err("ContactValidationError", <<fax, "is not in valid format">>)
        ELSE Ok(None)

\* The attributes __init__ sets on the new object.
InstanceAttrs ==
    {_prefix, organization_name, job_title, first_name, last_name, address1,
     address2, city, state_province, state_province_choice, postal_code,
     country, phone, phone_ext, fax, email_address}

\* The keys __init__ reads with kwargs[...], in the order it reads them; the
\* last one only when kwargs.get('email') is false.
IndexedKeys(kwargs) ==
    <<"first_name", "last_name", "address1", "city", "state_province",
      "postal_code", "country", "phone">>
    \o (IF Truthy(Get(kwargs, "email")) THEN <<>> ELSE <<"email_address">>)

\* Contact.__init__(prefix, **kwargs): the new object, or the exception.
Contact(prefix, kwargs) ==
    LET keys    == IndexedKeys(kwargs)
        missing == {i \in 1..Len(keys) : keys[i] \notin DOMAIN kwargs}
        self    ==
            [a \in InstanceAttrs |->
                CASE a = _prefix -> prefix
                  [] a = organization_name -> Get(kwargs, "organization_name")
                  [] a = job_title -> Get(kwargs, "job_title")
                  [] a = first_name -> kwargs["first_name"]
                  [] a = last_name -> kwargs["last_name"]
                  [] a = address1 -> kwargs["address1"]
                  [] a = address2 -> Get(kwargs, "address2")
                  [] a = city -> kwargs["city"]
                  [] a = state_province -> kwargs["state_province"]
                  [] a = state_province_choice -> Get(kwargs, "state_province_choice")
                  [] a = postal_code -> kwargs["postal_code"]
                  [] a = country -> kwargs["country"]
                  [] a = phone -> kwargs["phone"]
                  [] a = phone_ext -> Get(kwargs, "phone_ext")
                  [] a = fax -> Get(kwargs, "fax")
                  [] a = email_address ->
                        IF Truthy(Get(kwargs, "email"))
                        THEN kwargs["email"] ELSE kwargs["email_address"]]
    IN  IF missing # {}
        THEN Err("KeyError", keys[CHOOSE i \in missing : \A j \in missing : i <= j])
        ELSE IF validate(self).kind = "raise" THEN validate(self)
        ELSE Ok(self)

\* str.upper() and str.lower() of one character.
LowerLetters == <<"a", "b", "c", "d", "e", "f", "g", "h", "i", "j", "k", "l", "m", "n", "o", "p", "q", "r", "s", "t", "u", "v", "w", "x", "y", "z">>
UpperLetters == <<"A", "B", "C", "D", "E", "F", "G", "H", "I", "J", "K", "L", "M", "N", "O", "P", "Q", "R", "S", "T", "U", "V", "W", "X", "Y", "Z">>

IsLower(c) == \E i \in 1..26 : LowerLetters[i] = c
IsUpper(c) == \E i \in 1..26 : UpperLetters[i] = c
IsLetter(c) == IsLower(c) \/ IsUpper(c)
IsAlnum(c) == IsLetter(c) \/ c \in Digits

upper_char(c) == IF IsLower(c) THEN UpperLetters[CHOOSE i \in 1..26 : LowerLetters[i] = c] ELSE c
lower_char(c) == IF IsUpper(c) THEN LowerLetters[CHOOSE i \in 1..26 : UpperLetters[i] = c] ELSE c

\* str.upper()
upper(s) == [i \in 1..Len(s) |-> upper_char(s[i])]

\* str.title(): a letter that follows no letter is upper-cased, every other
\* letter is lower-cased.
title(s) ==
    [i \in 1..Len(s) |->
        IF i = 1 \/ ~IsLetter(s[i - 1]) THEN upper_char(s[i]) ELSE lower_char(s[i])]

\* re.sub(r'[A-Za-z0-9]_[A-Za-z0-9]', underscore_to_camel, s): the matches are
\* taken leftmost first and do not overlap; each becomes its first character
\* followed by its third, upper-cased.
RECURSIVE sub_underscore(_)
sub_underscore(s) ==
    IF s = <<>> THEN <<>>
    ELSE IF Len(s) >= 3 /\ IsAlnum(s[1]) /\ s[2] = "_" /\ IsAlnum(s[3])
         THEN <<s[1], upper_char(s[3])>> \o sub_underscore(SubSeq(s, 4, Len(s)))
         ELSE <<s[1]>> \o sub_underscore(Tail(s))

\* A mutated _camelize: the str is not title-cased before the substitution.
camelize_notitle(string) == sub_underscore(string)

\* Contact._camelize
_camelize(string) == sub_underscore(title(string))

\* The names of the methods of Contact (callable attributes).
ContactMethods ==
    {<<"_", "_", "i", "n", "i", "t", "_", "_">>,
     <<"_", "c", "a", "m", "e", "l", "i", "z", "e">>,
     <<"_", "v", "a", "l", "i", "d", "a", "t", "e", "_", "p", "h", "o", "n", "e", "_", "n", "u", "m", "b", "e", "r">>,
     <<"a", "s", "_", "d", "i", "c", "t">>,
     <<"v", "a", "l", "i", "d", "a", "t", "e">>}

\* dir(self) of a Contact, sorted as dir() sorts it: the instance attributes,
\* the methods, the name-mangled __required_fields and the attributes every
\* object has (all of those start with '_'; three stand for them).
ContactDir ==
    <<<<"_", "C", "o", "n", "t", "a", "c", "t", "_", "_", "r", "e", "q", "u", "i", "r", "e", "d", "_", "f", "i", "e", "l", "d", "s">>,
      <<"_", "_", "c", "l", "a", "s", "s", "_", "_">>,
      <<"_", "_", "d", "i", "c", "t", "_", "_">>,
      <<"_", "_", "d", "o", "c", "_", "_">>,
      <<"_", "_", "i", "n", "i", "t", "_", "_">>,
      <<"_", "c", "a", "m", "e", "l", "i", "z", "e">>,
      _prefix,
      <<"_", "v", "a", "l", "i", "d", "a", "t", "e", "_", "p", "h", "o", "n", "e", "_", "n", "u", "m", "b", "e", "r">>,
      address1, address2,
      <<"a", "s", "_", "d", "i", "c", "t">>,
      city, country, email_address, fax, first_name, job_title, last_name,
      organization_name, phone, phone_ext, postal_code, state_province,
      state_province_choice,
      <<"v", "a", "l", "i", "d", "a", "t", "e">>>>

\* _camelize of each attribute name as_dict passes to it, as a dict key,
\* computed once.
Camelized == [attr \in InstanceAttrs |-> Str(_camelize(attr))]

\* One turn of the loop of as_dict: attr is skipped or becomes an entry of ret.
as_dict_step(self, ret, attr) ==
    IF attr \in ContactMethods \/ attr[1] = "_" THEN ret
    ELSE IF self[attr] = None THEN ret
    ELSE Update(ret, (Str(self[_prefix]) \o Camelized[attr]) :> self[attr])

RECURSIVE as_dict_loop(_, _, _)
as_dict_loop(self, ret, i) ==
    IF i > Len(ContactDir) THEN ret
    ELSE as_dict_loop(self, as_dict_step(self, ret, ContactDir[i]), i + 1)

\* Contact.as_dict
as_dict(self) == as_dict_loop(self, EmptyDict, 1)

---------------------------------------------------------------------------
(* NamecheapClient: the command methods *)

\* copy.copy(registrant) with its _prefix set anew.
CopyWithPrefix(contact, prefix) == [contact EXCEPT ![_prefix] = prefix]

\* NamecheapClient.domains_create(domain_name, **kwargs).  kwargs maps
\* 'years' to an int and each role given to a reference to a Contact; objs maps
\* the references to the objects.  Also yields objs as the call leaves them.
domains_create(base, url, domain_name, kwargs, objs, response) ==
    IF "registrant" \notin DOMAIN kwargs
    THEN Raise("KeyError", "registrant", <<>>, base) @@ [heap |-> objs]
    ELSE
    LET years       == IF "years" \in DOMAIN kwargs THEN kwargs["years"] ELSE 1
        objs1       == [objs EXCEPT ![kwargs["registrant"]] =
                            CopyWithPrefix(@, <<"R", "e", "g", "i", "s", "t", "r", "a", "n", "t">>)]
        registrant  == objs1[kwargs["registrant"]]
        admin       == IF "admin" \in DOMAIN kwargs THEN objs1[kwargs["admin"]]
                       ELSE CopyWithPrefix(registrant, <<"A", "d", "m", "i", "n">>)
        tech        == IF "tech" \in DOMAIN kwargs THEN objs1[kwargs["tech"]]
                       ELSE CopyWithPrefix(registrant, <<"T", "e", "c", "h">>)
        aux_billing == IF "aux_billing" \in DOMAIN kwargs THEN objs1[kwargs["aux_billing"]]
                       ELSE CopyWithPrefix(registrant,
                                <<"A", "u", "x", "B", "i", "l", "l", "i", "n", "g">>)
        opts0       == [Command |-> "namecheap.domains.create",
                        DomainName |-> domain_name, Years |-> years]
        get_opts    == Update(Update(Update(Update(opts0, as_dict(registrant)),
                                            as_dict(admin)), as_dict(tech)),
                              as_dict(aux_billing))
    IN  request(base, url, get_opts, response) @@ [heap |-> objs1]

LIST_TYPES == [all |-> "ALL", expiring |-> "EXPIRING", expired |-> "EXPIRED"]

SORT_TYPES ==
    ("name" :> "NAME") @@ ("-name" :> "NAME_DESC")
    @@ ("expire_date" :> "EXPIREDATE") @@ ("-expire_date" :> "EXPIREDATE_DESC")
    @@ ("create_date" :> "CREATEDATE") @@ ("-create_date" :> "CREATEDATE_DESC")

\* The keyword argument, or the default of the parameter.
Arg(kwargs, k, default) == IF k \in DOMAIN kwargs THEN kwargs[k] ELSE default

\* A mutated common_get_list: the arguments are checked after the request is
\* sent.
common_get_list_late(base, url, command, kwargs, response) ==
    LET list_type   == Arg(kwargs, "list_type", "all")
        sort_by     == Arg(kwargs, "sort_by", "name")
        search_term == Arg(kwargs, "search_term", None)
        raw         == [Command |-> command, ListType |-> list_type,
                        SortBy |-> sort_by, Page |-> Arg(kwargs, "page", 1),
                        PageSize |-> Arg(kwargs, "page_size", 10)]
        posted      == request(base, url, raw, response)
    IN  IF list_type \notin DOMAIN LIST_TYPES
        THEN Raise("ValueError", "Invalid list_type.", posted.posts, base)
        ELSE IF sort_by \notin DOMAIN SORT_TYPES
        THEN Raise("ValueError", "Invalid sort_by", posted.posts, base)
        ELSE request(base, url,
                     Update([raw EXCEPT !.ListType = LIST_TYPES[list_type],
                                        !.SortBy = SORT_TYPES[sort_by]],
                            IF Truthy(search_term)
                            THEN [SearchTerm |-> search_term] ELSE EmptyDict),
                     response)

\* NamecheapClient.common_get_list(command, list_type='all', sort_by='name',
\* page_size=10, page=1, search_term=None)
common_get_list(base, url, command, kwargs, response) ==
    LET list_type   == Arg(kwargs, "list_type", "all")
        sort_by     == Arg(kwargs, "sort_by", "name")
        search_term == Arg(kwargs, "search_term", None)
    IN  IF list_type \notin DOMAIN LIST_TYPES
        THEN Raise("ValueError", "Invalid list_type.", <<>>, base)
        ELSE IF sort_by \notin DOMAIN SORT_TYPES
        THEN Raise("ValueError", "Invalid sort_by", <<>>, base)
        ELSE LET opts0    == [Command |-> command, ListType |-> LIST_TYPES[list_type],
                              SortBy |-> SORT_TYPES[sort_by],
                              Page |-> Arg(kwargs, "page", 1),
                              PageSize |-> Arg(kwargs, "page_size", 10)]
                 get_opts == IF Truthy(search_term)
                             THEN Update(opts0, [SearchTerm |-> search_term])
                             ELSE opts0
             IN  request(base, url, get_opts, response)

\* xmltodict.parse, as far as the client reads its result: an element with no
\* children parses to None; child elements of one name parse to one dict when
\* there is one of them and to a list of dicts when there are several.
PyNone == [type |-> "None"]
PyDict(d) == [type |-> "dict", v |-> d]
PyList(l) == [type |-> "list", v |-> l]

Children(name, elements) ==
    IF elements = <<>> THEN PyNone
    ELSE PyDict(name :> (IF Len(elements) = 1 THEN PyDict(elements[1])
                         ELSE PyList(elements)))

xmltodict_parse(response) ==
    [Errors |-> Children("Error", response.errors),
     DomainGetListResult |-> Children("Domain", response.domains)]

\* str.split(sep) for a one-character sep.
RECURSIVE split(_, _)
split(s, sep) ==
    IF \A i \in 1..Len(s) : s[i] # sep THEN <<s>>
    ELSE LET i == CHOOSE i \in 1..Len(s) :
                      s[i] = sep /\ \A j \in 1..(i - 1) : s[j] # sep
         IN  <<SubSeq(s, 1, i - 1)>> \o split(SubSeq(s, i + 1, Len(s)), sep)

\* The value of a str of decimal digits.
DigitValue(c) ==
    CASE c = "0" -> 0 [] c = "1" -> 1 [] c = "2" -> 2 [] c = "3" -> 3 [] c = "4" -> 4
      [] c = "5" -> 5 [] c = "6" -> 6 [] c = "7" -> 7 [] c = "8" -> 8 [] c = "9" -> 9

RECURSIVE Decimal(_)
Decimal(s) ==
    IF s = <<>> THEN 0
    ELSE 10 * Decimal(SubSeq(s, 1, Len(s) - 1)) + DigitValue(s[Len(s)])

IsDecimal(s) == s # None /\ s # <<>> /\ \A i \in 1..Len(s) : s[i] \in Digits

\* int(v) of None or a str (signs and surrounding blanks are left out).
int(v) ==
    IF v = None THEN Err("TypeError", "int")
    ELSE IF ~IsDecimal(v) THEN Err("ValueError", "int")
    ELSE Ok(Decimal(v))

\* datetime.strptime(v, '%m/%d/%Y').date()
strptime_date(v) ==
    IF v = None THEN Err("TypeError", "strptime")
    ELSE LET parts == split(v, "/")
         IN  IF /\ Len(parts) = 3
                /\ \A i \in 1..3 : IsDecimal(parts[i])
                /\ Len(parts[1]) <= 2 /\ Decimal(parts[1]) \in 1..12
                /\ Len(parts[2]) <= 2 /\ Decimal(parts[2]) \in 1..31
                /\ Len(parts[3]) = 4
             THEN Ok([year |-> Decimal(parts[3]), month |-> Decimal(parts[1]),
                      day |-> Decimal(parts[2])])
             ELSE Err("ValueError", "strptime")

True == <<"t", "r", "u", "e">>

\* Domain.__init__(client, **kwargs): the new object, or the exception.
Domain(kwargs) ==
    LET created == strptime_date(Get(kwargs, "Created"))
        expires == strptime_date(Get(kwargs, "Expires"))
        id      == int(Get(kwargs, "ID"))
    IN  IF created.kind = "raise" THEN created
        ELSE IF expires.kind = "raise" THEN expires
        ELSE IF id.kind = "raise" THEN id
        ELSE Ok([auto_renew  |-> Get(kwargs, "AutoRenew"),
                 created     |-> created.value,
                 expires     |-> expires.value,
                 id          |-> id.value,
                 is_expired  |-> Get(kwargs, "IsExpired") = True,
                 is_locked   |-> Get(kwargs, "IsLocked") = True,
                 name        |-> Get(kwargs, "Name"),
                 user        |-> Get(kwargs, "User"),
                 whois_guard |-> Get(kwargs, "WhoisGuard")])

\* {k[1:]: v for k, v in domain.iteritems()}
StripKeys(domain) ==
    [n \in {Str(Tail(k)) : k \in DOMAIN domain} |->
        domain[CHOOSE k \in DOMAIN domain : Str(Tail(k)) = n]]

\* NamecheapClient.domains_get_list(**kwargs)
domains_get_list(base, url, kwargs, response) ==
    LET sent_   == common_get_list(base, url, "namecheap.domains.getList", kwargs, response)
        doc     == xmltodict_parse(response)
        errors  == doc.Errors
        result_ == doc.DomainGetListResult
        domains == result_.v["Domain"]
        made    == [i \in 1..Len(domains.v) |-> Domain(StripKeys(domains.v[i]))]
        failed  == {i \in DOMAIN made : made[i].kind = "raise"}
    IN  IF sent_.kind = "raise" THEN sent_
        ELSE IF errors.type # "None"
        THEN Raise("Exception", errors, sent_.posts, sent_.base_opts)
        ELSE IF result_.type = "None"
        THEN \* None['Domain']
             Raise("TypeError", "result['Domain']", sent_.posts, sent_.base_opts)
        ELSE IF domains.type = "dict"
        THEN \* the loop runs over the keys of the one dict, and a str has no iteritems
             Raise("AttributeError", "iteritems", sent_.posts, sent_.base_opts)
        ELSE IF failed # {}
        THEN LET i == CHOOSE i \in failed : \A j \in failed : i <= j
             IN  Raise(made[i].exc, made[i].value, sent_.posts, sent_.base_opts)
        ELSE Return([i \in DOMAIN made |-> made[i].value], sent_.posts, sent_.base_opts)

\* sep.join(strs)
RECURSIVE join(_, _)
join(sep, strs) ==
    IF strs = <<>> THEN <<>>
    ELSE IF Len(strs) = 1 THEN strs[1]
    ELSE strs[1] \o sep \o join(sep, Tail(strs))

\* NamecheapClient.domains_dns_set_custom(sld, tld, nameservers)
domains_dns_set_custom(base, url, sld_, tld_, nameservers, response) ==
    LET get_opts == [Command |-> "namecheap.domains.dns.setCustom",
                     SLD |-> sld_, TLD |-> tld_,
                     Nameservers |->
                         join(<<",">>, [i \in 1..Len(nameservers) |-> upper(nameservers[i])])]
        sent_    == request(base, url, get_opts, response)
        errors   == xmltodict_parse(response).Errors
    IN  IF errors.type # "None"
        THEN Raise("Exception", errors, sent_.posts, sent_.base_opts)
        ELSE sent_

SSL_TYPES ==
    {"QuickSSL", "QuickSSL Premium", "RapidSSL", "RapidSSL Wildcard",
     "PremiumSSL", "InstantSSL", "PositiveSSL", "PositiveSSL Wildcard",
     "True BusinessID with EV", "True BusinessID ",
     "True BusinessID Wildcard ", "Secure Site ", "Secure Site Pro ",
     "Secure Site with EV ", "Secure Site Pro with EV", "EssentialSSL",
     "EssentialSSL Wildcard", "InstantSSL Pro", "Premiumssl wildcard",
     "EV SSL", "EV SSL SGC", "SSL123", "SSL Web Server",
     "SGC Super Certs", "SSL Webserver EV"}

\* NamecheapClient.ssl_create(ssl_type, years=1)
ssl_create(base, url, ssl_type, years, response) ==
    IF ssl_type \notin SSL_TYPES
    THEN Raise("ValueError", "Invalid SSL Certificate Type", <<>>, base)
    ELSE request(base, url,
                 [Command |-> "namecheap.ssl.create", Years |-> years, Type |-> ssl_type],
                 response)

\* NamecheapClient.ssl_get_list(**kwargs): it returns the response at once; the
\* statements after the return never run.
ssl_get_list(base, url, kwargs, response) ==
    common_get_list(base, url, "namecheap.ssl.getList", kwargs, response)

\* Domain.sld and Domain.tld: the first and the second part of the name.
sld(self) ==
    LET parts == split(self.name, ".")
    IN  IF Len(parts) < 1 THEN Err("IndexError", "sld") ELSE Ok(parts[1])

tld(self) ==
    LET parts == split(self.name, ".")
    IN  IF Len(parts) < 2 THEN Err("IndexError", "tld") ELSE Ok(parts[2])

\* Domain.set_nameservers(nameservers)
set_nameservers(base, url, self, nameservers, response) ==
    IF sld(self).kind = "raise"
    THEN Raise(sld(self).exc, sld(self).value, <<>>, base)
    ELSE IF tld(self).kind = "raise"
    THEN Raise(tld(self).exc, tld(self).value, <<>>, base)
    ELSE domains_dns_set_custom(base, url, sld(self).value, tld(self).value,
                                nameservers, response)

---------------------------------------------------------------------------
(* Inputs *)

ApiUsers == {<<"u">>}
ApiKeys == {<<"k">>}
Usernames == {None, <<"n">>}
ClientIps == {None, <<"9">>}
LookedUpIps == {<<"7">>}

\* An HTTP response: the Error children of ApiResponse/Errors and the Domain
\* children of the command's result element.
NoErrors == <<>>
SomeErrors == <<[Number |-> <<"2">>, text |-> <<"e">>]>>

RequestKeys == {"Command", "ApiUser", "ClientIp"}
RequestVals == {<<"x">>, <<"9">>}
RequestKwargs == UNION {[S -> RequestVals] : S \in SUBSET RequestKeys}

PlainResponses == {[errors |-> e, domains |-> <<>>] : e \in {NoErrors, SomeErrors}}

\* Keyword arguments of Contact(...): one complete valid set, and variations
\* of one field, of phone and fax, of the email alias and of the optional fields.
ValidPhone == <<"+", "1", "2", "3", ".", "4", "5", "6", "7", "8", "9", "0">>
OtherValidPhone == <<"+", "5", "5", "5", ".", "1", "2", "3", "4", "5", "6", "7">>
LongPhone == <<"+", "1", "2", "3", ".", "4", "5", "6", "7", "8", "9", "0", "1">>
TrailingPhone == <<"+", "1", "2", "3", ".", "4", "5", "6", "7", "8", "9", "0", "x">>
ShortPhone == <<"+", "1", "2", "3", ".", "4", "5", "6", "7", "8", "9">>
NoPlusPhone == <<"1", "2", "3", ".", "4", "5", "6", "7", "8", "9", "0">>
LetterPhone == <<"+", "1", "2", "a", ".", "4", "5", "6", "7", "8", "9", "0">>
DashPhone == <<"+", "1", "2", "3", "-", "4", "5", "6", "7", "8", "9", "0">>

Phones ==
    {ValidPhone, LongPhone, TrailingPhone, ShortPhone, NoPlusPhone, LetterPhone,
     DashPhone}
Faxes == {None, <<>>, OtherValidPhone, TrailingPhone, ShortPhone}

RequiredKeys ==
    {"first_name", "last_name", "address1", "city", "state_province",
     "country", "postal_code", "phone", "email_address"}

BaseKwargs ==
    [first_name |-> <<"J">>, last_name |-> <<"D">>, address1 |-> <<"1">>,
     city |-> <<"C">>, state_province |-> <<"S">>, country |-> <<"U">>,
     postal_code |-> <<"8">>, phone |-> ValidPhone, email_address |-> <<"@">>]

OptionalKwargs ==
    [organization_name |-> <<"O">>, job_title |-> <<"T">>, address2 |-> <<"2">>,
     state_province_choice |-> <<"P">>, phone_ext |-> <<"3">>]

Remove(d, k) == [x \in (DOMAIN d) \ {k} |-> d[x]]

ContactKwargs ==
    {BaseKwargs, Update(BaseKwargs, OptionalKwargs),
     Update(BaseKwargs, "address2" :> <<"2">>)}
    \cup {Remove(BaseKwargs, k) : k \in RequiredKeys}
    \cup {[BaseKwargs EXCEPT ![k] = v] : k \in RequiredKeys, v \in {<<>>, None}}
    \cup {[BaseKwargs EXCEPT !["phone"] = p] : p \in Phones}
    \cup {Update([BaseKwargs EXCEPT !["phone"] = p], "fax" :> f) :
            p \in Phones, f \in Faxes}
    \cup {Update(Remove(BaseKwargs, "email_address"), "email" :> e) :
            e \in {None, <<>>, <<"e">>}}
    \cup {Update(BaseKwargs, "email" :> <<"e">>)}

Prefixes == {<<>>, <<"A", "d", "m", "i", "n">>}

\* The attributes of a Domain element, as xmltodict names them.
DomainAttributes ==
    {<<"@", "I", "D">>,
     <<"@", "N", "a", "m", "e">>,
     <<"@", "U", "s", "e", "r">>,
     <<"@", "C", "r", "e", "a", "t", "e", "d">>,
     <<"@", "E", "x", "p", "i", "r", "e", "s">>,
     <<"@", "I", "s", "E", "x", "p", "i", "r", "e", "d">>,
     <<"@", "I", "s", "L", "o", "c", "k", "e", "d">>,
     <<"@", "A", "u", "t", "o", "R", "e", "n", "e", "w">>,
     <<"@", "W", "h", "o", "i", "s", "G", "u", "a", "r", "d">>}

\* Two Domain elements: a.io, and b.co.uk, expired.
DomainElement1 ==
    [k \in DomainAttributes |->
        CASE k = <<"@", "I", "D">> -> <<"7">>
          [] k = <<"@", "N", "a", "m", "e">> -> <<"a", ".", "i", "o">>
          [] k = <<"@", "U", "s", "e", "r">> -> <<"u">>
          [] k = <<"@", "C", "r", "e", "a", "t", "e", "d">> -> <<"0", "1", "/", "0", "2", "/", "2", "0", "1", "3">>
          [] k = <<"@", "E", "x", "p", "i", "r", "e", "s">> -> <<"1", "/", "2", "/", "2", "0", "1", "4">>
          [] k = <<"@", "I", "s", "E", "x", "p", "i", "r", "e", "d">> -> <<"f", "a", "l", "s", "e">>
          [] k = <<"@", "I", "s", "L", "o", "c", "k", "e", "d">> -> <<"t", "r", "u", "e">>
          [] k = <<"@", "A", "u", "t", "o", "R", "e", "n", "e", "w">> -> <<"f", "a", "l", "s", "e">>
          [] k = <<"@", "W", "h", "o", "i", "s", "G", "u", "a", "r", "d">> -> <<"E", "N", "A", "B", "L", "E", "D">>]

DomainElement2 ==
    [k \in DomainAttributes |->
        CASE k = <<"@", "I", "D">> -> <<"4", "2">>
          [] k = <<"@", "N", "a", "m", "e">> -> <<"b", ".", "c", "o", ".", "u", "k">>
          [] k = <<"@", "U", "s", "e", "r">> -> <<"v">>
          [] k = <<"@", "C", "r", "e", "a", "t", "e", "d">> -> <<"1", "2", "/", "3", "1", "/", "2", "0", "1", "2">>
          [] k = <<"@", "E", "x", "p", "i", "r", "e", "s">> -> <<"1", "2", "/", "3", "1", "/", "2", "0", "1", "3">>
          [] k = <<"@", "I", "s", "E", "x", "p", "i", "r", "e", "d">> -> <<"t", "r", "u", "e">>
          [] k = <<"@", "I", "s", "L", "o", "c", "k", "e", "d">> -> <<"f", "a", "l", "s", "e">>
          [] k = <<"@", "A", "u", "t", "o", "R", "e", "n", "e", "w">> -> <<"t", "r", "u", "e">>
          [] k = <<"@", "W", "h", "o", "i", "s", "G", "u", "a", "r", "d">> -> <<"N", "O", "T", "P", "R", "E", "S", "E", "N", "T">>]

DomainElements == {DomainElement1, DomainElement2}

MaxDomains == 2
MaxNameservers == 2

\* The sequences over S of length at most n.
SeqsUpTo(S, n) == UNION {[1..m -> S] : m \in 0..n}

\* What the server answers to domains.getList: errors, or a list of domains.
ListResponses ==
    {[errors |-> SomeErrors, domains |-> <<>>]}
    \cup {[errors |-> NoErrors, domains |-> d] : d \in SeqsUpTo(DomainElements, MaxDomains)}

\* Keyword arguments of the list calls: every list_type with the default
\* sort_by, every sort_by with the default list_type, both invalid.
ListTypeArgs == {"all", "expiring", "expired", "soon"}
SortByArgs ==
    {"name", "-name", "expire_date", "-expire_date", "create_date",
     "-create_date", "size"}
SearchTermArgs == {None, <<>>, <<"x">>}

FewListKwargs ==
    {EmptyDict, [list_type |-> "expired", sort_by |-> "-name"],
     [list_type |-> "soon"], [sort_by |-> "size"], [search_term |-> <<"x">>]}

ListKwargs ==
    {EmptyDict, [page |-> 2, page_size |-> 5],
     [list_type |-> "soon", sort_by |-> "size"]}
    \cup {[list_type |-> t, search_term |-> q] : t \in ListTypeArgs, q \in SearchTermArgs}
    \cup {[sort_by |-> o, search_term |-> q] : o \in SortByArgs, q \in SearchTermArgs}

SslTypeArgs == {"QuickSSL", "True BusinessID ", "True BusinessID", "FreeSSL"}
YearsArgs == {1, 2}

Nameservers == {<<"n", "s", "1", ".", "x">>, <<"N", "s", "2">>}
NameserverLists == SeqsUpTo(Nameservers, MaxNameservers)

\* Contact objects a caller may hold, each successfully constructed.
OtherKwargs ==
    [first_name |-> <<"K">>, last_name |-> <<"E">>, address1 |-> <<"2">>,
     city |-> <<"B">>, state_province |-> <<"T">>, country |-> <<"V">>,
     postal_code |-> <<"9">>, phone |-> OtherValidPhone, email_address |-> <<"%">>,
     fax |-> OtherValidPhone]

PlainContact == Contact(<<>>, BaseKwargs).value
OtherContact == Contact(<<>>, OtherKwargs).value
AdminContact == Contact(<<"A", "d", "m", "i", "n">>, OtherKwargs).value
TechContact == Contact(<<"T", "e", "c", "h">>, OtherKwargs).value

\* The arguments of domains_create: the objects, by reference, and the
\* keyword arguments naming them.  The admin may be the registrant itself.
CreateObjects ==
    {[r |-> PlainContact, a |-> adm, t |-> TechContact, b |-> OtherContact] :
        adm \in {OtherContact, AdminContact}}

CreateKwargs ==
    {EmptyDict, [years |-> 2, admin |-> "a"]}
    \cup {Update(Update([registrant |-> "r"], adm), rest) :
            adm \in {EmptyDict, [admin |-> "r"], [admin |-> "a"]},
            rest \in {EmptyDict, [tech |-> "t", years |-> 2],
                      [tech |-> "t", aux_billing |-> "b"]}}

FewCreateObjects ==
    {[r |-> PlainContact, a |-> AdminContact, t |-> TechContact, b |-> OtherContact]}

FewCreateKwargs == {[registrant |-> "r"], [registrant |-> "r", admin |-> "a"]}

DomainNames == {<<"a", ".", "i", "o">>}

---------------------------------------------------------------------------
(* Actions *)

Finish(op, args, out) ==
    /\ call' = [op |-> op, args |-> args]
    /\ result' = [kind |-> out.kind, exc |-> out.exc, value |-> out.value]
    /\ sent' = out.posts
    /\ base_opts' = out.base_opts
    /\ heap' = IF "heap" \in DOMAIN out THEN out.heap ELSE EmptyDict
    /\ UNCHANGED <<base_url, ip_lookups, ctor>>

Request ==
    \E kwargs \in RequestKwargs, response \in PlainResponses :
        Finish("request", [kwargs |-> kwargs, response |-> response],
               request(base_opts, base_url, kwargs, response))

DomainsCreateWith(Kwargs, Objects) ==
    \E domain_name \in DomainNames, kwargs \in Kwargs, objs \in Objects,
       response \in PlainResponses :
        Finish("domains_create",
               [domain_name |-> domain_name, kwargs |-> kwargs, objs |-> objs,
                response |-> response],
               domains_create(base_opts, base_url, domain_name, kwargs, objs, response))

\* domains_create among the other operations, with a registrant alone or with
\* an admin too.
DomainsCreate == DomainsCreateWith(FewCreateKwargs, FewCreateObjects)

\* domains_create with every combination of roles.
DomainsCreateAny == DomainsCreateWith(CreateKwargs, CreateObjects)

CommonGetList ==
    \E command \in {"namecheap.domains.getList"}, kwargs \in ListKwargs,
       response \in PlainResponses :
        Finish("common_get_list",
               [command |-> command, kwargs |-> kwargs, response |-> response],
               common_get_list(base_opts, base_url, command, kwargs, response))

DomainsGetList ==
    \E kwargs \in FewListKwargs, response \in ListResponses :
        Finish("domains_get_list", [kwargs |-> kwargs, response |-> response],
               domains_get_list(base_opts, base_url, kwargs, response))

DomainsDnsSetCustom ==
    \E sld_ \in {<<"a">>}, tld_ \in {<<"i", "o">>}, nameservers \in NameserverLists,
       response \in PlainResponses :
        Finish("domains_dns_set_custom",
               [sld |-> sld_, tld |-> tld_, nameservers |-> nameservers,
                response |-> response],
               domains_dns_set_custom(base_opts, base_url, sld_, tld_, nameservers,
                                      response))

SslCreate ==
    \E ssl_type \in SslTypeArgs, years \in YearsArgs, response \in PlainResponses :
        Finish("ssl_create",
               [ssl_type |-> ssl_type, years |-> years, response |-> response],
               ssl_create(base_opts, base_url, ssl_type, years, response))

SslGetList ==
    \E kwargs \in ListKwargs, response \in PlainResponses :
        Finish("ssl_get_list", [kwargs |-> kwargs, response |-> response],
               ssl_get_list(base_opts, base_url, kwargs, response))

\* set_nameservers on one of the Domain records domains_get_list just returned.
SetNameservers ==
    /\ call.op = "domains_get_list"
    /\ result.kind = "return"
    /\ \E i \in 1..Len(result.value), nameservers \in NameserverLists,
          response \in PlainResponses :
        Finish("set_nameservers",
               [self |-> result.value[i], nameservers |-> nameservers,
                response |-> response],
               set_nameservers(base_opts, base_url, result.value[i], nameservers,
                               response))

\* An operation of a Contact: no client is involved.
FinishContact(op, args, out) ==
    /\ call' = [op |-> op, args |-> args]
    /\ result' = out
    /\ sent' = <<>>
    /\ heap' = EmptyDict
    /\ UNCHANGED <<base_opts, base_url, ip_lookups, ctor>>

NewContact ==
    \E prefix \in Prefixes, kwargs \in ContactKwargs :
        FinishContact("Contact", [prefix |-> prefix, kwargs |-> kwargs],
                      Contact(prefix, kwargs))

AsDict ==
    /\ call.op = "Contact"
    /\ result.kind = "return"
    /\ FinishContact("as_dict", [self |-> result.value], Ok(as_dict(result.value)))

Init ==
    \E api_user \in ApiUsers, api_key \in ApiKeys, username \in Usernames,
       client_ip \in ClientIps, looked_up \in LookedUpIps :
        LET c == NamecheapClient(api_user, api_key, username, client_ip, looked_up)
        IN  /\ base_opts = c.base_opts
            /\ base_url = c.base_url
            /\ ip_lookups = c.ip_lookups
            /\ ctor = [api_user |-> api_user, api_key |-> api_key,
                       username |-> username, client_ip |-> client_ip,
                       looked_up |-> looked_up]
            /\ call = [op |-> "__init__", args |-> EmptyDict]
            /\ result = [kind |-> "return", exc |-> "", value |-> None]
            /\ sent = <<>>
            /\ heap = EmptyDict

Next ==
    \/ Request
    \/ DomainsCreate
    \/ CommonGetList
    \/ DomainsGetList
    \/ DomainsDnsSetCustom
    \/ SslCreate
    \/ SslGetList
    \/ SetNameservers

Spec == Init /\ [][Next]_vars

\* domains_create on its own, with every combination of roles.
NextCreate ==
    \/ DomainsCreateAny

SpecCreate == Init /\ [][NextCreate]_vars

\* The Contact record on its own: construction and as_dict.
InitContact == Init /\ ctor.username = None /\ ctor.client_ip = None

NextContact ==
    \/ NewContact
    \/ AsDict

SpecContact == InitContact /\ [][NextContact]_vars

---------------------------------------------------------------------------
(* Properties of Contact *)

\* The contact fields (the public data attributes) and the wire name of each.
ContactFields == InstanceAttrs \ {_prefix}

WireName(f) ==
    CASE f = organization_name -> "OrganizationName"
      [] f = job_title -> "JobTitle"
      [] f = first_name -> "FirstName"
      [] f = last_name -> "LastName"
      [] f = address1 -> "Address1"
      [] f = address2 -> "Address2"
      [] f = city -> "City"
      [] f = state_province -> "StateProvince"
      [] f = state_province_choice -> "StateProvinceChoice"
      [] f = postal_code -> "PostalCode"
      [] f = country -> "Country"
      [] f = phone -> "Phone"
      [] f = phone_ext -> "PhoneExt"
      [] f = fax -> "Fax"
      [] f = email_address -> "EmailAddress"

\* The nine required fields.
RequiredFieldSet ==
    {first_name, last_name, address1, city, state_province, country, postal_code,
     phone, email_address}

\* '+', three digits, '.', seven digits, and nothing else.
PhoneForm(v) ==
    /\ Len(v) = 12
    /\ v[1] = "+"
    /\ \A i \in {2, 3, 4} : v[i] \in Digits
    /\ v[5] = "."
    /\ \A i \in 6..12 : v[i] \in Digits

\* C2 as stated: a required keyword argument that is absent or empty makes
\* construction raise ContactValidationError, and a constructed Contact has
\* all nine required fields non-empty.
C2_AbsentOrEmptyRaisesValidationError ==
    call.op = "Contact" =>
        /\ (\E k \in RequiredKeys : ~Truthy(Get(call.args.kwargs, k)))
              => result.kind = "raise" /\ result.exc = "ContactValidationError"
        /\ result.kind = "return"
              => \A f \in RequiredFieldSet : Truthy(result.value[f])

\* C2 as amended: a required keyword argument that is absent makes construction
\* raise KeyError; otherwise one that is empty makes it raise
\* ContactValidationError; email_address is not needed when a non-empty email
\* keyword argument is given; a constructed Contact has all nine required
\* fields non-empty.
C2_RequiredFieldsEnforced ==
    call.op = "Contact" =>
        LET kw     == call.args.kwargs
            needed == IF Truthy(Get(kw, "email"))
                      THEN RequiredKeys \ {"email_address"} ELSE RequiredKeys
        IN  /\ (\E k \in needed : k \notin DOMAIN kw)
                  => result.kind = "raise" /\ result.exc = "KeyError"
            /\ ((\A k \in needed : k \in DOMAIN kw) /\ (\E k \in needed : ~Truthy(kw[k])))
                  => result.kind = "raise" /\ result.exc = "ContactValidationError"
            /\ result.kind = "return"
                  => \A f \in RequiredFieldSet : Truthy(result.value[f])

\* C2's case: Contact is called without the phone keyword argument, and it
\* raises.
C2_Witness ==
    /\ call.op = "Contact"
    /\ "phone" \notin DOMAIN call.args.kwargs
    /\ result.kind = "raise"
    /\ result.exc = "KeyError"

\* C3: a Contact is constructed only if its whole phone has the form '+', three
\* digits, '.', seven digits, and its fax, when one is given, has that form too.
C3_WholePhoneHasTheForm ==
    (call.op = "Contact" /\ result.kind = "return") =>
        /\ PhoneForm(result.value[phone])
        /\ Truthy(result.value[fax]) => PhoneForm(result.value[fax])

\* C8: as_dict has exactly one entry per contact field that is not None, keyed
\* by the prefix followed by the field's wire name and holding the field's
\* value; distinct fields have distinct keys.
C8_AsDictWireNames ==
    call.op = "as_dict" =>
        LET self  == call.args.self
            P     == Str(self[_prefix])
            given == {f \in ContactFields : self[f] # None}
            d     == result.value
        IN  /\ DOMAIN d = {P \o WireName(f) : f \in given}
            /\ \A f \in given : d[P \o WireName(f)] = self[f]
            /\ Cardinality(DOMAIN d) = Cardinality(given)

\* C8's case: as_dict of a prefixed Contact with some optional fields None.
C8_Witness ==
    /\ call.op = "as_dict"
    /\ call.args.self[_prefix] = <<"A", "d", "m", "i", "n">>
    /\ call.args.self[state_province_choice] # None
    /\ call.args.self[fax] = None
    /\ "AdminStateProvinceChoice" \in DOMAIN result.value

---------------------------------------------------------------------------
(* Properties of the client *)

BaseKeys == {"ApiUser", "ApiKey", "UserName", "ClientIp"}

\* C1: a call of request issues exactly one POST, to base_url, whose parameters
\* are the base parameters overlaid with the keyword arguments: every keyword
\* argument with its value, every other base parameter with its base value,
\* and no other key.
C1_RequestPostsMergedParams ==
    call.op = "request" =>
        /\ Len(sent) = 1
        /\ sent[1].url = base_url
        /\ LET data == sent[1].data
               kw   == call.args.kwargs
           IN  /\ DOMAIN data = BaseKeys \cup DOMAIN kw
               /\ \A k \in DOMAIN kw : data[k] = kw[k]
               /\ \A k \in BaseKeys \ DOMAIN kw : data[k] = base_opts[k]

\* C1's case: request with a keyword argument that names a base key, another
\* that does not, and a base key left alone.
C1_Witness ==
    /\ call.op = "request"
    /\ {"ApiUser", "Command"} \subseteq DOMAIN call.args.kwargs
    /\ "ClientIp" \notin DOMAIN call.args.kwargs
    /\ call.args.kwargs["ApiUser"] # base_opts["ApiUser"]
    /\ Len(sent) = 1

\* The base parameters the constructor's arguments call for.
ExpectedBaseOpts ==
    [ApiUser  |-> ctor.api_user,
     ApiKey   |-> ctor.api_key,
     UserName |-> IF ctor.username \in {None, <<>>} THEN ctor.api_user ELSE ctor.username,
     ClientIp |-> IF ctor.client_ip \in {None, <<>>} THEN ctor.looked_up ELSE ctor.client_ip]

\* C9: after construction and after any sequence of calls, base_opts is what
\* the constructor's arguments call for, and the IP was looked up exactly when
\* no client_ip was given.
C9_BaseOptsFixed ==
    /\ base_opts = ExpectedBaseOpts
    /\ ip_lookups = IF ctor.client_ip \in {None, <<>>} THEN 1 ELSE 0

\* C9's case: a request whose keyword arguments name a base key with another
\* value has been made, on a client constructed without username or client_ip.
C9_Witness ==
    /\ call.op = "request"
    /\ "ClientIp" \in DOMAIN call.args.kwargs
    /\ call.args.kwargs["ClientIp"] # ctor.looked_up
    /\ ctor.client_ip = None
    /\ ctor.username = None
    /\ sent # <<>>

\* The wire values of list_type and sort_by.
WireListType(t) ==
    CASE t = "all" -> "ALL" [] t = "expiring" -> "EXPIRING" [] t = "expired" -> "EXPIRED"

WireSortBy(o) ==
    CASE o = "name" -> "NAME" [] o = "-name" -> "NAME_DESC"
      [] o = "expire_date" -> "EXPIREDATE" [] o = "-expire_date" -> "EXPIREDATE_DESC"
      [] o = "create_date" -> "CREATEDATE" [] o = "-create_date" -> "CREATEDATE_DESC"

ListOps == {"common_get_list", "domains_get_list", "ssl_get_list"}

\* C6: a list call with an invalid list_type or sort_by, and an ssl_create with
\* an ssl_type that is not accepted, raise ValueError and issue no POST; with
\* valid arguments exactly one POST is issued, with the mapped wire values, and
\* with SearchTerm exactly when a search term is given.
C6_ValidationBeforePost ==
    /\ call.op \in ListOps =>
        LET kw          == call.args.kwargs
            list_type   == IF "list_type" \in DOMAIN kw THEN kw["list_type"] ELSE "all"
            sort_by     == IF "sort_by" \in DOMAIN kw THEN kw["sort_by"] ELSE "name"
            search_term == IF "search_term" \in DOMAIN kw THEN kw["search_term"] ELSE None
            valid       == /\ list_type \in {"all", "expiring", "expired"}
                           /\ sort_by \in {"name", "-name", "expire_date", "-expire_date",
                                           "create_date", "-create_date"}
        IN  /\ ~valid => result.kind = "raise" /\ result.exc = "ValueError" /\ sent = <<>>
            /\ valid =>
                /\ Len(sent) = 1
                /\ sent[1].data["ListType"] = WireListType(list_type)
                /\ sent[1].data["SortBy"] = WireSortBy(sort_by)
                /\ "SearchTerm" \in DOMAIN sent[1].data <=> search_term \notin {None, <<>>}
                /\ search_term \notin {None, <<>>} => sent[1].data["SearchTerm"] = search_term
    /\ call.op = "ssl_create" =>
        /\ call.args.ssl_type \notin SSL_TYPES
              => result.kind = "raise" /\ result.exc = "ValueError" /\ sent = <<>>
        /\ call.args.ssl_type \in SSL_TYPES
              => /\ Len(sent) = 1
                 /\ sent[1].data["Type"] = call.args.ssl_type
                 /\ sent[1].data["Years"] = call.args.years

\* C6's case: domains_get_list is called with an invalid sort_by.
C6_Witness ==
    /\ call.op = "domains_get_list"
    /\ "sort_by" \in DOMAIN call.args.kwargs
    /\ call.args.kwargs["sort_by"] = "size"
    /\ result.exc = "ValueError"
    /\ sent = <<>>

CommandOps ==
    {"domains_create", "domains_get_list", "domains_dns_set_custom", "ssl_create",
     "ssl_get_list"}

\* C5: when the response to a command method has errors, the method raises;
\* it returns only when there are none.
C5_RemoteErrorsRaise ==
    (call.op \in CommandOps /\ sent # <<>> /\ call.args.response.errors # <<>>)
        => result.kind = "raise"

\* The ID of each Domain element of the inputs, as an integer.
ElementId(e) == CASE e = DomainElement1 -> 7 [] e = DomainElement2 -> 42

\* C7: for an error-free response with any number of Domain elements,
\* domains_get_list returns one Domain record per element, in order, with the
\* element's name, user, integer ID and flags.
C7_OneRecordPerElement ==
    (call.op = "domains_get_list" /\ sent # <<>> /\ call.args.response.errors = <<>>) =>
        LET elements == call.args.response.domains
        IN  /\ result.kind = "return"
            /\ Len(result.value) = Len(elements)
            /\ \A i \in 1..Len(elements) :
                /\ result.value[i].name = elements[i][<<"@", "N", "a", "m", "e">>]
                /\ result.value[i].user = elements[i][<<"@", "U", "s", "e", "r">>]
                /\ result.value[i].id = ElementId(elements[i])
                /\ result.value[i].is_expired
                      <=> elements[i][<<"@", "I", "s", "E", "x", "p", "i", "r", "e", "d">>]
                            = <<"t", "r", "u", "e">>
                /\ result.value[i].is_locked
                      <=> elements[i][<<"@", "I", "s", "L", "o", "c", "k", "e", "d">>]
                            = <<"t", "r", "u", "e">>

\* C10: set_nameservers sends SLD and TLD with SLD + '.' + TLD the name of the
\* domain, and Nameservers the given ones upper-cased and comma-joined in order.
C10_SetNameserversTargetsDomain ==
    call.op = "set_nameservers" =>
        /\ Len(sent) = 1
        /\ sent[1].data["SLD"] \o <<".">> \o sent[1].data["TLD"] = call.args.self.name
        /\ sent[1].data["Nameservers"]
              = join(<<",">>, [i \in 1..Len(call.args.nameservers) |->
                                  upper(call.args.nameservers[i])])

Roles ==
    {[key |-> "registrant", prefix |-> "Registrant"], [key |-> "admin", prefix |-> "Admin"],
     [key |-> "tech", prefix |-> "Tech"], [key |-> "aux_billing", prefix |-> "AuxBilling"]}

\* C4: the request of domains_create carries, for each of the four roles, the
\* fields of the contact supplied for the role, or of the registrant when none
\* is supplied, under the role's prefix.
C4_AllFourRolesPresent ==
    (call.op = "domains_create" /\ "registrant" \in DOMAIN call.args.kwargs) =>
        /\ Len(sent) = 1
        /\ \A role \in Roles :
            LET kw      == call.args.kwargs
                contact == IF role.key \in DOMAIN kw THEN call.args.objs[kw[role.key]]
                           ELSE call.args.objs[kw["registrant"]]
            IN  \A f \in ContactFields :
                    contact[f] # None =>
                        /\ (role.prefix \o WireName(f)) \in DOMAIN sent[1].data
                        /\ sent[1].data[role.prefix \o WireName(f)] = contact[f]

====
